---- MODULE Spec2Model ----
(***************************************************************************)
(* Request handlers of apps/phonebook/views.py (mozillians).               *)
(*                                                                         *)
(* The state is the persistent state the handlers read and write (User    *)
(* and UserProfile rows, Invite rows, the background task queue, the      *)
(* browser session) together with the request being served and the        *)
(* response it produced.  The model follows one browser session; the      *)
(* other users are rows of an arbitrary initial state.  Requests are      *)
(* served one at a time and the task worker runs beside them.  There is   *)
(* one action per handler; delete, the only handler with more than one    *)
(* write, is split at its writes so that the background task can run      *)
(* between them.                                                          *)
(***************************************************************************)
EXTENDS Integers, Sequences, FiniteSets, TLC

\* ---------------------------------------------------------------- bounds
NUsers == 2
NNames == 3
MaxInvites == 1
MaxLimit == 2
MaxPage == 3

Users == 1..NUsers
\* the browser session the model follows
Sessions == {1}
Names == 1..NNames
Methods == {"GET", "POST"}
\* a primary key no UserProfile row has
NoSuchPk == NUsers + 1

VARIABLES
    username,     \* User.username, by user id
    full_name,    \* UserProfile.full_name (0 is the empty string)
    is_complete,  \* UserProfile.is_complete
    is_vouched,   \* UserProfile.is_vouched
    vouched_by,   \* UserProfile.vouched_by (0 is None)
    anonymized,   \* UserProfile.anonymize() has run on the row
    invites,      \* Invite rows, in creation order
    tasks,        \* queued remove_from_basket_task calls, by profile id
    session,      \* request.user of each browser session (0 is AnonymousUser)
    pc,           \* position of the delete request being served
    last          \* the request being served and its response

dom == <<username, full_name, is_complete, is_vouched, vouched_by,
         anonymized, invites, tasks, session>>
vars == <<username, full_name, is_complete, is_vouched, vouched_by,
          anonymized, invites, tasks, session, pc, last>>

\* ------------------------------------------------------------- responses
NoTo == <<>>
Resp(kind, status, to, tmpl) ==
    [kind |-> kind, status |-> status, to |-> to, tmpl |-> tmpl,
     vouch_form |-> 0, people |-> <<>>, number |-> 0, msg |-> ""]

Page(tmpl, status) == Resp("page", status, NoTo, tmpl)
Redirect(to) == Resp("redirect", 302, to, "")
Forbidden == Resp("forbidden", 403, NoTo, "")
NotFound == Resp("not_found", 404, NoTo, "")
NotAllowed == Resp("not_allowed", 405, NoTo, "")
ServerError == Resp("error", 500, NoTo, "")
\* the class HttpResponseForbidden itself, which is not a response object
ForbiddenClass == Resp("response_class", 0, NoTo, "")
LoginRedirect == Redirect(<<"login">>)
ProfileUrl(name) == <<"profile", name>>
HomeUrl == <<"home">>

\* -------------------------------------------------------------- requests
NoPage == [t |-> "absent", v |-> 0]
Req(h, s, m) ==
    [h |-> h, s |-> s, m |-> m, name |-> 0, bound |-> FALSE,
     user_ok |-> FALSE, form_ok |-> FALSE, fname |-> 0, vouchee |-> 0,
     page |-> NoPage, limit |-> 0, hits |-> {}, groups |-> 0,
     ajax |-> FALSE]

NoReq == Req("none", 0, "GET")
NoResp == Resp("none", 0, NoTo, "")
NoLast == [req |-> NoReq, resp |-> NoResp, body |-> FALSE]

\* no request is being served
idle == last = NoLast /\ pc = "idle"

\* body: whether the handler function under the decorators was called
Done(req, resp, body) ==
    last' = [req |-> req, resp |-> resp, body |-> body]

\* ------------------------------------------------------------ decorators
is_authenticated(s) == session[s] # 0

\* a gate that forgets the is_vouched test
vouch_required_any_user(s) ==
    IF ~is_authenticated(s) THEN "login" ELSE "call"

\* a gate that tests the wrong profile flag
vouch_required_complete(s) ==
    IF ~is_authenticated(s) THEN "login"
    ELSE IF is_complete[session[s]] THEN "call"
    ELSE "forbidden"

vouch_required(s) ==
    IF ~is_authenticated(s) THEN "login"
    ELSE IF is_vouched[session[s]] THEN "call"
    ELSE "forbidden"

GateResp(gate) == IF gate = "login" THEN LoginRedirect ELSE Forbidden

require_POST(m) == m = "POST"

\* ------------------------------------------------------------------ home
home(s) ==
    /\ idle
    /\ Done(Req("home", s, "GET"), Page("phonebook/home.html", 200), TRUE)
    /\ UNCHANGED <<dom, pc>>

\* --------------------------------------------------------------- profile
\* the vouch test placed before the completeness test
profile_view_vouch_first(caller, name) ==
    LET found == {u \in Users : username[u] = name} IN
    IF found = {} THEN NotFound
    ELSE LET user == CHOOSE u \in found : TRUE IN
         IF ~is_vouched[caller] /\ caller # user THEN Forbidden
         ELSE IF ~is_complete[user] THEN NotFound
         ELSE [Page("phonebook/profile.html", 200) EXCEPT
                  !.vouch_form =
                      IF ~is_vouched[user] /\ is_vouched[caller]
                      THEN user ELSE 0]

\* the vouch test left out
profile_view_no_vouch_test(caller, name) ==
    LET found == {u \in Users : username[u] = name} IN
    IF found = {} THEN NotFound
    ELSE LET user == CHOOSE u \in found : TRUE IN
         IF ~is_complete[user] THEN NotFound
         ELSE [Page("phonebook/profile.html", 200) EXCEPT
                  !.vouch_form =
                      IF ~is_vouched[user] /\ is_vouched[caller]
                      THEN user ELSE 0]

profile_view(caller, name) ==
    LET found == {u \in Users : username[u] = name} IN
    IF found = {} THEN NotFound
    ELSE LET user == CHOOSE u \in found : TRUE IN
         IF ~is_complete[user] THEN NotFound
         ELSE IF ~is_vouched[caller] /\ caller # user THEN Forbidden
         ELSE [Page("phonebook/profile.html", 200) EXCEPT
                  !.vouch_form =
                      IF ~is_vouched[user] /\ is_vouched[caller]
                      THEN user ELSE 0]

profile(s, name) ==
    /\ idle
    /\ LET req == [Req("profile", s, "GET") EXCEPT !.name = name] IN
       IF ~is_authenticated(s)
       THEN Done(req, LoginRedirect, FALSE)
       ELSE Done(req, profile_view(session[s], name), TRUE)
    /\ UNCHANGED <<dom, pc>>

\* ---------------------------------------------------------- edit_profile
FullNames == {1, 2}

\* Form.is_valid() and Form.errors of a form built from `request.POST or
\* None`: an empty POST body leaves the form unbound, and an unbound form
\* is not valid and has no errors.
is_valid(bound, ok) == bound /\ ok
has_errors(bound, ok) == bound /\ ~ok

\* the status taken from the profile form alone
edit_status_profile_only(bound, user_ok, form_ok) ==
    IF has_errors(bound, form_ok) THEN 400 ELSE 200

edit_status(bound, user_ok, form_ok) ==
    IF has_errors(bound, form_ok) \/ has_errors(bound, user_ok)
    THEN 400 ELSE 200

edit_saves(m, bound, user_ok, form_ok) ==
    /\ m = "POST"
    /\ is_valid(bound, user_ok)
    /\ is_valid(bound, form_ok)

edit_profile(s, m, bound, user_ok, form_ok, name, fname) ==
    /\ idle
    /\ bound => m = "POST"
    /\ ~bound => ~user_ok /\ ~form_ok
    \* User.username is unique: a valid user form never carries a taken name
    /\ user_ok => \A v \in Users \ {session[s]} : username[v] # name
    /\ LET req == [Req("edit_profile", s, m) EXCEPT
                      !.bound = bound, !.user_ok = user_ok,
                      !.form_ok = form_ok, !.name = name, !.fname = fname]
           user == session[s]
       IN
       IF ~is_authenticated(s)
       THEN /\ Done(req, LoginRedirect, FALSE)
            /\ UNCHANGED <<username, full_name>>
       ELSE IF edit_saves(m, bound, user_ok, form_ok)
       THEN /\ username' = [username EXCEPT ![user] = name]
            /\ full_name' = [full_name EXCEPT ![user] = fname]
            /\ Done(req,
                    [Redirect(ProfileUrl(name)) EXCEPT
                        !.msg = IF name # username[user]
                                THEN "username changed" ELSE ""],
                    TRUE)
       ELSE /\ Done(req,
                    Page("phonebook/edit_profile.html",
                         edit_status(bound, user_ok, form_ok)),
                    TRUE)
            /\ UNCHANGED <<username, full_name>>
    /\ UNCHANGED <<is_complete, is_vouched, vouched_by, anonymized,
                   invites, tasks, session, pc>>

\* -------------------------------------------------------- confirm_delete
confirm_delete(s, m) ==
    /\ idle
    /\ IF ~is_authenticated(s)
       THEN Done(Req("confirm_delete", s, m), LoginRedirect, FALSE)
       ELSE Done(Req("confirm_delete", s, m),
                 Page("phonebook/confirm_delete.html", 200), TRUE)
    /\ UNCHANGED <<dom, pc>>

\* ---------------------------------------------------------------- delete
\* UserProfile.anonymize(): clears the row's personal fields for good
anonymize(u) ==
    /\ anonymized' = [anonymized EXCEPT ![u] = TRUE]
    /\ full_name' = [full_name EXCEPT ![u] = 0]

\* decorators, then remove_from_basket_task.delay(user_profile.id)
delete_enqueue(s, m) ==
    /\ idle
    /\ IF ~is_authenticated(s)
       THEN /\ Done(Req("delete", s, m), LoginRedirect, FALSE)
            /\ UNCHANGED <<tasks, pc>>
       ELSE IF ~require_POST(m)
       THEN /\ Done(Req("delete", s, m), NotAllowed, FALSE)
            /\ UNCHANGED <<tasks, pc>>
       ELSE /\ tasks' = Append(tasks, session[s])
            /\ pc' = "enqueued"
            /\ Done(Req("delete", s, m), NoResp, TRUE)
    /\ UNCHANGED <<username, full_name, is_complete, is_vouched,
                   vouched_by, anonymized, invites, session>>

\* user_profile.anonymize()
delete_anonymize(s) ==
    /\ pc = "enqueued"
    /\ last.req.s = s
    /\ anonymize(session[s])
    /\ pc' = "anonymized"
    /\ UNCHANGED <<username, is_complete, is_vouched, vouched_by,
                   invites, tasks, session, last>>

\* the redirect without the logout
delete_logout_keeps_session(s) ==
    /\ pc = "anonymized"
    /\ last.req.s = s
    /\ pc' = "idle"
    /\ Done(Req("delete", s, "POST"), Redirect(HomeUrl), TRUE)
    /\ UNCHANGED <<username, full_name, is_complete, is_vouched,
                   vouched_by, anonymized, invites, tasks, session>>

\* logout(request); return redirect(reverse('home'))
delete_logout(s) ==
    /\ pc = "anonymized"
    /\ last.req.s = s
    /\ session' = [session EXCEPT ![s] = 0]
    /\ pc' = "idle"
    /\ Done(Req("delete", s, "POST"), Redirect(HomeUrl), TRUE)
    /\ UNCHANGED <<username, full_name, is_complete, is_vouched,
                   vouched_by, anonymized, invites, tasks>>

\* the task worker runs remove_from_basket_task for the oldest queued id
run_task ==
    /\ tasks # <<>>
    /\ tasks' = Tail(tasks)
    /\ UNCHANGED <<username, full_name, is_complete, is_vouched,
                   vouched_by, anonymized, invites, session, pc, last>>

\* ---------------------------------------------------------------- search
\* request.GET.get('page', 1): absent, a string int() rejects, or an integer
PageParams ==
    {NoPage, [t |-> "str", v |-> 0]}
        \cup {[t |-> "int", v |-> k] : k \in -1..MaxPage}

\* the QuerySet UserProfile.search() returns, in primary key order
RECURSIVE ordered(_)
ordered(S) ==
    IF S = {} THEN <<>>
    ELSE LET u == CHOOSE x \in S : \A y \in S : x <= y
         IN <<u>> \o ordered(S \ {u})

\* Paginator.num_pages (orphans 0, allow_empty_first_page)
num_pages(count, per_page) ==
    IF count = 0 THEN 1 ELSE (count + per_page - 1) \div per_page

\* Paginator.validate_number: the page number, or the exception raised
validate_number(page, count, per_page) ==
    IF page.t = "absent" THEN [exc |-> "", n |-> 1]
    ELSE IF page.t = "str" THEN [exc |-> "PageNotAnInteger", n |-> 0]
    ELSE IF page.v < 1 THEN [exc |-> "EmptyPage", n |-> 0]
    ELSE IF page.v > num_pages(count, per_page)
    THEN [exc |-> "EmptyPage", n |-> 0]
    ELSE [exc |-> "", n |-> page.v]

IntPage(k) == [t |-> "int", v |-> k]

\* EmptyPage answered with the first page
people_page_first_on_empty(page, count, per_page) ==
    LET first == validate_number(page, count, per_page) IN
    IF first.exc # ""
    THEN validate_number(IntPage(1), count, per_page)
    ELSE first

\* the try/except around paginator.page(page)
people_page(page, count, per_page) ==
    LET first == validate_number(page, count, per_page) IN
    IF first.exc = "PageNotAnInteger"
    THEN validate_number(IntPage(1), count, per_page)
    ELSE IF first.exc = "EmptyPage"
    THEN validate_number(IntPage(num_pages(count, per_page)),
                         count, per_page)
    ELSE first

\* Page.object_list: the slice [(n - 1) * per_page : n * per_page]
object_list(profiles, n, per_page) ==
    LET bottom == (n - 1) * per_page
        top == IF n * per_page > Len(profiles)
               THEN Len(profiles) ELSE n * per_page
    IN SubSeq(profiles, bottom + 1, top)

\* the group results left out of the test
single_match_ignoring_groups(count, groups) == count = 1

single_match(count, groups) == count = 1 /\ groups = 0

search_view(form_ok, page, limit, hits, groups, ajax) ==
    LET tmpl == IF ajax THEN "search_ajax.html" ELSE "phonebook/search.html"
        profiles == ordered(hits)
        count == Len(profiles)
        pg == people_page(page, count, limit)
        people == object_list(profiles, pg.n, limit)
    IN
    IF ~form_ok THEN Page(tmpl, 200)
    ELSE IF pg.exc # "" THEN ServerError
    ELSE IF single_match(count, groups)
    THEN IF people = <<>> THEN ServerError
         ELSE Redirect(ProfileUrl(username[people[1]]))
    ELSE [Page(tmpl, 200) EXCEPT !.people = people, !.number = pg.n]

search(s, form_ok, page, limit, hits, groups, ajax) ==
    /\ idle
    /\ LET req == [Req("search", s, "GET") EXCEPT
                      !.form_ok = form_ok, !.page = page, !.limit = limit,
                      !.hits = hits, !.groups = groups, !.ajax = ajax]
           gate == vouch_required(s)
       IN
       IF gate # "call"
       THEN Done(req, GateResp(gate), FALSE)
       ELSE Done(req, search_view(form_ok, page, limit, hits, groups, ajax),
                 TRUE)
    /\ UNCHANGED <<dom, pc>>

\* --------------------------------------------------------- search_plugin
search_plugin(s) ==
    /\ idle
    /\ Done(Req("search_plugin", s, "GET"),
            Page("phonebook/search_opensearch.xml", 200), TRUE)
    /\ UNCHANGED <<dom, pc>>

\* ---------------------------------------------------------------- invite
Recipient == "recipient@example.org"

\* the form saved on every POST
invite_saves_any_post(m, bound, form_ok) == m = "POST"

invite_saves(m, bound, form_ok) == m = "POST" /\ is_valid(bound, form_ok)

invite(s, m, bound, form_ok) ==
    /\ idle
    /\ bound => m = "POST"
    /\ ~bound => ~form_ok
    /\ LET req == [Req("invite", s, m) EXCEPT
                      !.bound = bound, !.form_ok = form_ok]
           gate == vouch_required(s)
       IN
       IF gate # "call"
       THEN /\ Done(req, GateResp(gate), FALSE)
            /\ UNCHANGED invites
       ELSE IF invite_saves(m, bound, form_ok)
       THEN /\ Len(invites) < MaxInvites
            /\ invites' = Append(invites, [inviter |-> session[s],
                                           recipient |-> Recipient])
            /\ Done(req, Page("phonebook/invited.html", 200), TRUE)
       ELSE /\ Done(req, Page("phonebook/invite.html", 200), TRUE)
            /\ UNCHANGED invites
    /\ UNCHANGED <<username, full_name, is_complete, is_vouched,
                   vouched_by, anonymized, tasks, session, pc>>

\* ----------------------------------------------------------------- vouch
\* UserProfile.vouch(vouched_by)
profile_vouch(p, voucher) ==
    /\ is_vouched' = [is_vouched EXCEPT ![p] = TRUE]
    /\ vouched_by' = [vouched_by EXCEPT ![p] = voucher]

\* what the handler returns when form.is_valid() is false
vouch_invalid == ForbiddenClass

vouch(s, m, form_ok, vouchee) ==
    /\ idle
    /\ LET req == [Req("vouch", s, m) EXCEPT
                      !.bound = (m = "POST"), !.form_ok = form_ok,
                      !.vouchee = vouchee]
           gate == vouch_required(s)
       IN
       IF gate # "call"
       THEN /\ Done(req, GateResp(gate), FALSE)
            /\ UNCHANGED <<is_vouched, vouched_by>>
       ELSE IF ~require_POST(m)
       THEN /\ Done(req, NotAllowed, FALSE)
            /\ UNCHANGED <<is_vouched, vouched_by>>
       ELSE IF ~form_ok
       THEN /\ Done(req, vouch_invalid, TRUE)
            /\ UNCHANGED <<is_vouched, vouched_by>>
       ELSE IF vouchee \notin Users
       THEN \* UserProfile.DoesNotExist is not caught
            /\ Done(req, ServerError, TRUE)
            /\ UNCHANGED <<is_vouched, vouched_by>>
       ELSE /\ profile_vouch(vouchee, session[s])
            /\ Done(req,
                    [Redirect(ProfileUrl(username[vouchee])) EXCEPT
                        !.msg = "vouched"],
                    TRUE)
    /\ UNCHANGED <<username, full_name, is_complete, anonymized,
                   invites, tasks, session, pc>>

\* ---------------------------------------------------------- list_country
list_country(s) ==
    /\ idle
    /\ LET gate == vouch_required(s) IN
       IF gate # "call"
       THEN Done(Req("list_country", s, "GET"), GateResp(gate), FALSE)
       ELSE Done(Req("list_country", s, "GET"),
                 [Page("phonebook/location-list.html", 200) EXCEPT
                     !.people = ordered({u \in Users :
                                   full_name[u] # 0 /\ is_vouched[u]})],
                 TRUE)
    /\ UNCHANGED <<dom, pc>>

\* the response goes out to the client
respond ==
    /\ last # NoLast
    /\ pc = "idle"
    /\ last' = NoLast
    /\ UNCHANGED <<dom, pc>>

\* ------------------------------------------------------------------ spec
Init ==
    /\ username = [u \in Users |-> u]
    /\ is_complete \in [Users -> BOOLEAN]
    /\ full_name = [u \in Users |-> IF is_complete[u] THEN 1 ELSE 0]
    /\ is_vouched \in [Users -> BOOLEAN]
    /\ vouched_by = [u \in Users |-> 0]
    /\ anonymized = [u \in Users |-> FALSE]
    /\ invites = <<>>
    /\ tasks = <<>>
    /\ session \in [Sessions -> Users \cup {0}]
    /\ pc = "idle"
    /\ last = NoLast

Next ==
    \/ \E s \in Sessions : home(s)
    \/ \E s \in Sessions, name \in Names : profile(s, name)
    \/ \E s \in Sessions, m \in Methods, bound, user_ok, form_ok \in BOOLEAN,
          name \in Names, fname \in FullNames :
          edit_profile(s, m, bound, user_ok, form_ok, name, fname)
    \/ \E s \in Sessions, m \in Methods : confirm_delete(s, m)
    \/ \E s \in Sessions, m \in Methods : delete_enqueue(s, m)
    \/ \E s \in Sessions : delete_anonymize(s)
    \/ \E s \in Sessions : delete_logout(s)
    \/ run_task
    \/ \E s \in Sessions, form_ok \in BOOLEAN, hits \in SUBSET Users :
          search(s, form_ok, NoPage, MaxLimit, hits, 0, FALSE)
    \/ \E s \in Sessions : search_plugin(s)
    \/ \E s \in Sessions, m \in Methods, bound, form_ok \in BOOLEAN :
          invite(s, m, bound, form_ok)
    \/ \E s \in Sessions, m \in Methods, form_ok \in BOOLEAN,
          vouchee \in Users \cup {NoSuchPk} : vouch(s, m, form_ok, vouchee)
    \/ \E s \in Sessions : list_country(s)
    \/ respond

Spec == Init /\ [][Next]_vars

\* the search handler alone, over every page parameter
NextSearch ==
    \/ \E s \in Sessions, form_ok, ajax \in BOOLEAN, page \in PageParams,
          limit \in 1..MaxLimit, hits \in SUBSET Users, groups \in 0..1 :
          search(s, form_ok, page, limit, hits, groups, ajax)
    \/ respond

\* search reads the session, is_vouched and username only
InitSearch == Init /\ is_complete = [u \in Users |-> TRUE]

SearchSpec == InitSearch /\ [][NextSearch]_vars

\* ---------------------------------------------------------------- claims
\* the request being served, its caller and the user its name resolves to
Serving(h) == last.req.h = h /\ last.resp # NoResp
Caller == session[last.req.s]
Targets == {u \in Users : username[u] = last.req.name}

\* a handler takes up a request in this step
Takes(h) == last = NoLast /\ last'.req.h = h
CallerBefore == session[last'.req.s]

Gated == {"search", "invite", "vouch", "list_country"}

\* C1: behind vouch_required, a caller who is unauthenticated or unvouched
\* never has the handler body run and changes nothing; the unvouched
\* authenticated caller gets 403; an authenticated vouched caller is let
\* through and never gets the gate's own responses.
C1_VouchGate ==
    [][\A h \in Gated : Takes(h) =>
          /\ (CallerBefore = 0 \/ ~is_vouched[CallerBefore]) =>
                 /\ ~last'.body
                 /\ dom' = dom
          /\ (CallerBefore # 0 /\ ~is_vouched[CallerBefore]) =>
                 last'.resp = Forbidden
          /\ CallerBefore = 0 => last'.resp = LoginRedirect
          /\ (CallerBefore # 0 /\ is_vouched[CallerBefore]) =>
                 /\ last'.resp.kind # "forbidden"
                 /\ last'.resp # LoginRedirect
                 /\ (h # "vouch" \/ last'.req.m = "POST") => last'.body
      ]_vars

C1_Witness ==
    /\ last.req.h \in Gated
    /\ Caller # 0
    /\ ~is_vouched[Caller]
    /\ last.resp = Forbidden
    /\ ~last.body

\* C2 as stated: a profile request whose target has an incomplete profile
\* is answered 404 whoever the caller is, authenticated or not.
C2_Original ==
    (Serving("profile") /\ \E u \in Targets : ~is_complete[u])
        => last.resp = NotFound

\* C2 amended: a profile request by an authenticated caller whose target
\* has an incomplete profile is answered 404, whether the caller is vouched
\* or not, the owner or not; an unauthenticated caller is sent to the login
\* page before the target is looked up.
C2_IncompleteNotFound ==
    (Serving("profile") /\ \E u \in Targets : ~is_complete[u]) =>
        /\ Caller # 0 => last.resp = NotFound
        /\ Caller = 0 => last.resp = LoginRedirect /\ ~last.body

C2_Witness ==
    /\ Serving("profile")
    /\ Caller # 0
    /\ is_vouched[Caller]
    /\ Caller \in Targets
    /\ ~is_complete[Caller]
    /\ last.resp = NotFound

\* C3 as stated: a profile request by an unvouched caller who is not the
\* target user is answered 403.
C3_Original ==
    (/\ Serving("profile")
     /\ Caller # 0
     /\ ~is_vouched[Caller]
     /\ Targets # {}
     /\ Caller \notin Targets)
        => last.resp = Forbidden

\* C3 amended: a profile request by an authenticated unvouched caller for
\* another user whose profile is complete is answered 403; a profile page
\* is rendered for a non-owner only if the caller is vouched; an owner
\* whose profile is complete gets their own page even when unvouched.
C3_UnvouchedForbidden ==
    Serving("profile") /\ Caller # 0 =>
        /\ \A u \in Targets :
              (is_complete[u] /\ u # Caller /\ ~is_vouched[Caller])
                  => last.resp = Forbidden
        /\ (last.resp.kind = "page" /\ Caller \notin Targets)
              => is_vouched[Caller]
        /\ (Caller \in Targets /\ is_complete[Caller]) =>
              /\ last.resp.kind = "page"
              /\ last.resp.status = 200
              /\ last.resp.tmpl = "phonebook/profile.html"

C3_Witness ==
    /\ Serving("profile")
    /\ Caller # 0
    /\ ~is_vouched[Caller]
    /\ \E u \in Targets : is_complete[u] /\ u # Caller
    /\ last.resp = Forbidden

\* whether the search request got past the gate with a valid form
SearchRan == Serving("search") /\ last.body /\ last.req.form_ok
Count == Cardinality(last.req.hits)

\* C4: a valid search by a vouched caller with exactly one Profile hit and
\* no Group hit is answered by a redirect to that profile, whatever the
\* page parameter and the AJAX flag; any other numbers of hits never
\* produce a redirect.
C4_SingleMatchRedirect ==
    SearchRan =>
        IF Count = 1 /\ last.req.groups = 0
        THEN \A u \in last.req.hits :
                 last.resp = Redirect(ProfileUrl(username[u]))
        ELSE last.resp.kind # "redirect"

C4_Witness ==
    /\ SearchRan
    /\ Count = 1
    /\ last.req.groups = 0
    /\ last.req.ajax
    /\ last.req.page = [t |-> "int", v |-> MaxPage]
    /\ last.resp.kind = "redirect"

\* the last page of `count` results shown `limit` to a page
LastPage(count, limit) ==
    CHOOSE n \in 1..(count + 1) :
        IF count <= limit THEN n = 1
        ELSE (n - 1) * limit < count /\ count <= n * limit

\* C5: a valid search never ends in an error, and a listing shows a page
\* the paginator has: page 1 for a non-integer page parameter, the last
\* page for a number beyond it, and the slice of the results that page
\* holds.
C5_PageClamped ==
    SearchRan =>
        /\ last.resp.kind # "error"
        /\ last.resp.kind = "page" =>
              LET n == last.resp.number
                  limit == last.req.limit
                  people == last.resp.people
                  results == ordered(last.req.hits)
              IN
              /\ n \in 1..LastPage(Count, limit)
              /\ last.req.page.t = "str" => n = 1
              /\ last.req.page.t = "absent" => n = 1
              /\ (last.req.page.t = "int"
                      /\ last.req.page.v > LastPage(Count, limit))
                     => n = LastPage(Count, limit)
              /\ (last.req.page.t = "int"
                      /\ last.req.page.v \in 1..LastPage(Count, limit))
                     => n = last.req.page.v
              /\ Len(people) <= limit
              /\ Count > 0 => Len(people) >= 1
              /\ \A i \in 1..Len(people) :
                     people[i] = results[(n - 1) * limit + i]

C5_Witness ==
    /\ SearchRan
    /\ Count = 2
    /\ last.req.limit = 1
    /\ last.req.page = [t |-> "int", v |-> 3]
    /\ last.resp.kind = "page"
    /\ last.resp.number = 2
    /\ Len(last.resp.people) = 1

\* a task is added to the queue in this step
TaskEnqueued == Len(tasks') > Len(tasks)

EditReq == last'.req

\* C7 as stated: an edit_profile POST in which a form is not valid saves
\* nothing and is answered with status 400.
C7_Original ==
    [][(/\ Takes("edit_profile")
        /\ CallerBefore # 0
        /\ EditReq.m = "POST"
        /\ ~(is_valid(EditReq.bound, EditReq.user_ok)
               /\ is_valid(EditReq.bound, EditReq.form_ok)))
          => /\ last'.resp = Page("phonebook/edit_profile.html", 400)
             /\ dom' = dom
      ]_vars

\* C7 amended: for an authenticated caller, a POST with a non-empty body in
\* which a form has errors saves neither form and re-renders the edit page
\* with status 400; a POST with an empty body leaves both forms unbound,
\* saves nothing and re-renders with status 200; a POST with both forms
\* valid saves both and redirects to the profile URL of the saved
\* username; a GET renders the edit page with status 200.
C7_EditStatus ==
    [][(Takes("edit_profile") /\ CallerBefore # 0) =>
          IF EditReq.m = "GET"
          THEN /\ last'.resp = Page("phonebook/edit_profile.html", 200)
               /\ dom' = dom
          ELSE IF ~EditReq.bound
          THEN /\ last'.resp = Page("phonebook/edit_profile.html", 200)
               /\ dom' = dom
          ELSE IF ~(EditReq.user_ok /\ EditReq.form_ok)
          THEN /\ last'.resp = Page("phonebook/edit_profile.html", 400)
               /\ dom' = dom
          ELSE /\ last'.resp.kind = "redirect"
               /\ last'.resp.to = ProfileUrl(EditReq.name)
               /\ username' = [username EXCEPT
                                  ![CallerBefore] = EditReq.name]
               /\ full_name' = [full_name EXCEPT
                                   ![CallerBefore] = EditReq.fname]
               /\ last'.resp.to = ProfileUrl(username'[CallerBefore])
      ]_vars

C7_Witness ==
    /\ Serving("edit_profile")
    /\ Caller # 0
    /\ last.req.m = "POST"
    /\ last.req.bound
    /\ ~last.req.user_ok
    /\ last.req.form_ok
    /\ last.resp = Page("phonebook/edit_profile.html", 400)

\* C8: a vouch POST by a vouched caller with an invalid form is answered
\* 403 and changes no profile.
C8_InvalidVouchForbidden ==
    [][(/\ Takes("vouch")
        /\ last'.body
        /\ ~last'.req.form_ok)
          => /\ last'.resp = Forbidden
             /\ dom' = dom
      ]_vars

\* C9: a profile goes from unvouched to vouched only in a vouch POST with
\* a valid form naming it, issued by an authenticated caller whose own
\* profile is vouched at that time, who is recorded as the voucher; the
\* profile page carries the vouch form exactly when the target is
\* unvouched and the caller is vouched.
C9_OnlyVouchedVouch ==
    [][
        /\ \A u \in Users : (~is_vouched[u] /\ is_vouched'[u]) =>
              /\ last = NoLast
              /\ last'.req.h = "vouch"
              /\ last'.req.m = "POST"
              /\ last'.req.form_ok
              /\ last'.req.vouchee = u
              /\ CallerBefore # 0
              /\ is_vouched[CallerBefore]
              /\ vouched_by'[u] = CallerBefore
        /\ (Takes("profile") /\ last'.resp.kind = "page") =>
              \A u \in Users : username[u] = last'.req.name =>
                  last'.resp.vouch_form =
                      IF ~is_vouched[u] /\ is_vouched[CallerBefore]
                      THEN u ELSE 0
      ]_vars

C9_Witness ==
    /\ Serving("vouch")
    /\ last.body
    /\ last.resp.kind = "redirect"
    /\ last.req.vouchee # Caller
    /\ vouched_by[last.req.vouchee] = Caller
    /\ is_vouched[last.req.vouchee]

\* the four request shapes that write, judged in the state before the step
Writes(req) ==
    LET caller == session[req.s] IN
    /\ req.m = "POST"
    /\ caller # 0
    /\ \/ /\ req.h = "edit_profile"
          /\ req.bound /\ req.user_ok /\ req.form_ok
       \/ req.h = "delete"
       \/ /\ req.h = "invite"
          /\ is_vouched[caller]
          /\ req.bound /\ req.form_ok
       \/ /\ req.h = "vouch"
          /\ is_vouched[caller]
          /\ req.form_ok

DomainChanged ==
    \/ <<username, full_name, is_complete, is_vouched, vouched_by,
         anonymized, invites, session>>' #
       <<username, full_name, is_complete, is_vouched, vouched_by,
         anonymized, invites, session>>
    \/ TaskEnqueued

\* C10: profiles, invites, sessions and the set of enqueued tasks change
\* only while serving an edit_profile POST with both forms valid, a delete
\* POST, an invite POST with a valid form or a vouch POST with a valid
\* form, each past its gate; every other request leaves them as they were.
C10_Frame ==
    [][DomainChanged => (last'.req.h # "none" /\ Writes(last'.req))]_vars

C10_Witness ==
    /\ Serving("confirm_delete")
    /\ last.req.m = "POST"
    /\ Caller # 0
    /\ last.resp = Page("phonebook/confirm_delete.html", 200)
    /\ ~anonymized[Caller]
====
